---- MODULE Spec2Model ----
(***************************************************************************)
(* Checkout backend of Shringara-by-ekta: order creation against the       *)
(* Razorpay gateway, payment signature verification, Google sign-in and    *)
(* the JWT session middleware.                                             *)
(*                                                                         *)
(* The repository holds three variants of the server:                      *)
(*   "api"   src/server.js lines 1-118    (/api/orders/create, /verify)    *)
(*   "auth"  src/server.js lines 120-415  (JWT protected /create-order)    *)
(*   "basic" src/unnamed/part_000         (/create-order, /verify-payment) *)
(* A run of the model is a run of one of them (variable variant).          *)
(*                                                                         *)
(* A handler is an async function: the code up to its first await runs     *)
(* with the arrival of the request, every awaited gateway or store         *)
(* operation is a step of its own, and so is the response that follows     *)
(* the last one.  Requests in flight occupy a slot of slots.               *)
(*                                                                         *)
(* Values.  A JavaScript value that may be undefined is <<>> (undefined)   *)
(* or <<v>>.  A string is a sequence of tokens, so that a + b is a \o b.   *)
(* A number is a fixed-point integer counting thousandths (Scale).         *)
(***************************************************************************)
EXTENDS Integers, Sequences, FiniteSets, TLC

VARIABLES
    variant,          \* which server variant is deployed
    now,              \* Date.now(), in days
    gwOrders,         \* orders held by the payment gateway
    known,            \* gateway order ids that clients got from a response
    orders,           \* the Order collection, in insertion order
    users,            \* the User collection, in insertion order
    slots             \* requests in flight, each with its handler's position

vars == <<variant, now, gwOrders, known, orders, users, slots>>

----------------------------------------------------------------------------
(* Bounds *)

MaxOrders == 1
MaxInFlight == 1
MaxSignIns == 2
MaxTime == 1
MaxUsers == 1

----------------------------------------------------------------------------
(* JavaScript values *)

Undefined == <<>>
Some(v) == <<v>>
Get(m) == m[1]

\* !v for a string-valued field
FalsyStr(m) == m = Undefined \/ Get(m) = <<>>

\* String(v), as done by v + "|"
ToStr(m) == IF m = Undefined THEN <<"undefined">> ELSE Get(m)

Scale == 10 * 10 * 10
Num(n) == n * Scale

\* !v for a number-valued field: undefined, NaN and 0
FalsyNum(m) == m = Undefined \/ Get(m) = 0

\* x * 100 on a number that may be undefined (undefined * 100 is NaN = <<>>)
Times100(m) == IF m = Undefined THEN Undefined ELSE Some(Get(m) * 100)

\* Math.round: to the nearest integer, halves towards +Infinity
MathRound(m) ==
    IF m = Undefined THEN Undefined
    ELSE Some(((Get(m) + (Scale \div 2)) \div Scale) * Scale)

IsInteger(m) == m # Undefined /\ Get(m) % Scale = 0

Digit == <<"1", "2", "3", "4", "5", "6", "7", "8", "9">>


----------------------------------------------------------------------------
(* Configuration read from the environment *)

RAZORPAY_KEY_SECRET == "razorpay_key_secret"
RAZORPAY_KEY_ID == "razorpay_key_id"
JWT_SECRET == "jwt_secret"

Variants == {"api", "auth", "basic"}

----------------------------------------------------------------------------
(* The payment gateway *)

\* The id the gateway gives its n-th order
GatewayOrderId(n) == <<"order_", Digit[n]>>

PaymentIds == {<<"pay_", Digit[1]>>, <<"pay_", Digit[2]>>}

\* The gateway takes an amount in paise, an integer, at least 100 (Rs 1),
\* and requires a currency
GatewayAccepts(options) ==
    /\ IsInteger(options.amount)
    /\ Get(options.amount) >= Num(100)
    /\ options.currency # Undefined

\* razorpay.orders.create(options), when it succeeds: the gateway's new order
RazorpayOrdersCreate(options) ==
    [id |-> GatewayOrderId(Len(gwOrders) + 1),
     amount |-> Get(options.amount),
     currency |-> Get(options.currency)]

\* HMAC-SHA256(key, msg) in hex, taken to be collision free
Hmac(key, msg) == [key |-> key, msg |-> msg]

\* orderId + "|" + paymentId
SignedMessage(orderId, paymentId) == ToStr(orderId) \o <<"|">> \o ToStr(paymentId)

\* crypto.createHmac("sha256", RAZORPAY_KEY_SECRET).update(...).digest("hex")
GeneratedSignature(orderId, paymentId) ==
    Hmac(RAZORPAY_KEY_SECRET, SignedMessage(orderId, paymentId))

----------------------------------------------------------------------------
(* The Order collection *)

\* new Order({...}) / Order.create({...}) of each variant, for gateway order
\* `order`; fields the schema does not declare are dropped by the store.
\* Variant "api" writes items, which its schema (models/order.js) does not
\* have, so that products keeps its default, the empty array.
\* createdAt, which no handler reads but to sort a listing, is left out.
NewOrderDoc(v, order, body, user) ==
    [orderId   |-> order.id,
     paymentId |-> Undefined,
     signature |-> Undefined,
     amount    |-> IF v = "api" THEN Undefined ELSE Some(order.amount),
     currency  |-> IF v = "api" THEN Undefined ELSE Some(order.currency),
     products  |-> IF v = "api" THEN Some("empty") ELSE body.products,
     customer  |-> body.customer,
     userId    |-> IF v = "auth" THEN Some(Get(user).userId) ELSE Undefined,
     status    |-> "Created",
     updatedAt |-> IF v = "api" THEN Some(now) ELSE Undefined]

\* What the store makes of a filter {orderId: undefined} depends on the
\* mongoose build: the key is dropped (every document matches) or read as
\* null (none does, every document having an orderId).
UndefinedFilter == {"dropped", "null"}

\* Does document d match the filter {orderId: f}?
Matches(d, f, undef) ==
    IF f = Undefined THEN undef = "dropped"
    ELSE d.orderId = Get(f)

\* Index of the first document matching the filter, 0 when there is none
FindOne(docs, f, undef) ==
    IF \E i \in 1..Len(docs) : Matches(docs[i], f, undef)
    THEN CHOOSE i \in 1..Len(docs) :
            /\ Matches(docs[i], f, undef)
            /\ \A j \in 1..(i - 1) : ~Matches(docs[j], f, undef)
    ELSE 0

\* The update document each variant passes to findOneAndUpdate, applied to d
ApplyUpdate(v, d, upd) ==
    IF upd.status = "Paid"
    THEN [d EXCEPT !.paymentId = upd.paymentId,
                   !.signature = IF v = "api" THEN upd.signature ELSE @,
                   !.status = "Paid",
                   !.updatedAt = IF v = "basic" THEN @ ELSE Some(now)]
    ELSE [d EXCEPT !.status = "Failed",
                   !.updatedAt = IF v = "basic" THEN @ ELSE Some(now)]

\* Order.findOneAndUpdate({orderId: f}, upd): the first match is updated;
\* no match is a no-op.
FindOneAndUpdate(docs, f, upd, undef) ==
    LET i == FindOne(docs, f, undef) IN
    IF i = 0 THEN docs
    ELSE [docs EXCEPT ![i] = ApplyUpdate(variant, docs[i], upd)]


----------------------------------------------------------------------------
(* Session tokens and the session middleware *)

TokenTTL == 7

\* jwt.sign({userId, email}, secret, {expiresIn: "7d"})
JwtSign(payload, secret) ==
    [userId |-> payload.userId, email |-> payload.email,
     secret |-> secret, exp |-> now + TokenTTL]

\* A faulty jwt.verify, which does not look at the expiry: C7 tells it apart
JwtVerify_IgnoresExpiry(token) == token.secret = JWT_SECRET

\* jwt.verify(token, JWT_SECRET): the signature is the server's and the
\* token has not expired
JwtVerify(token) == token.secret = JWT_SECRET /\ now < token.exp

\* authHeader && authHeader.split(" ")[1]; a header is the sequence of its
\* space separated parts
BearerToken(hdr) ==
    IF hdr = Undefined \/ Len(Get(hdr)) < 2 THEN Undefined
    ELSE Some(Get(hdr)[2])

\* authenticateToken: the status it rejects with, or 0 when it calls next()
AuthenticateToken(hdr) ==
    LET token == BearerToken(hdr) IN
    IF token = Undefined THEN 401
    ELSE IF ~JwtVerify(Get(token)) THEN 403
    ELSE 0

\* req.user as authenticateToken attaches it
ReqUser(hdr) ==
    LET token == Get(BearerToken(hdr)) IN
    [userId |-> token.userId, email |-> token.email]

----------------------------------------------------------------------------
(* Requests in flight *)

\* Requests of the order endpoints and the protected routes in flight at a
\* time, and sign-ins in flight at a time
Slots == 1..MaxInFlight
SignInSlots == 1..MaxSignIns

Idle == [pc |-> "idle"]

\* A new request takes the lowest free slot
Free(r) ==
    /\ slots[r] = Idle
    /\ \A q \in 1..(r - 1) : slots[q] # Idle

Response(status, success, data) ==
    [status |-> status, success |-> success, data |-> data, err |-> "none"]

\* The response of a catch block, with the error it caught (and logs)
Caught(status, err) ==
    [status |-> status, success |-> FALSE, data |-> Undefined, err |-> err]

\* A handler that has its response: what is left is to send it
Responding(route, hdr, body, resp) ==
    [pc |-> "respond", route |-> route, hdr |-> hdr, body |-> body,
     pending |-> resp]

\* res.json(...): the response leaves, the request is over.  The client of
\* a created order now knows the gateway's id of it.
Respond(r) ==
    /\ slots[r].pc = "respond"
    /\ slots' = [slots EXCEPT ![r] = Idle]
    /\ known' = IF slots[r].route = "create" /\ slots[r].pending.status = 200
                THEN known \cup {Get(slots[r].pending.data).id}
                ELSE known
    /\ UNCHANGED <<variant, now, gwOrders, orders, users>>

Tick ==
    /\ now < MaxTime
    /\ now' = now + 1
    /\ UNCHANGED <<variant, gwOrders, known, orders, users, slots>>

----------------------------------------------------------------------------
(* Create order *)

\* The body's validation, per variant: TRUE when the request is refused (400)
CreateRejects(v, body) ==
    CASE v = "api"   -> body.products = Undefined \/ body.amount = Undefined
                        \/ body.customer = Undefined
      [] v = "auth"  -> FalsyNum(body.amount) \/ body.products = Undefined
                        \/ body.customer = Undefined
      [] v = "basic" -> FALSE

\* The options handed to razorpay.orders.create
CreateOptions(v, body) ==
    CASE v = "api"   -> [amount |-> MathRound(Times100(body.amount)),
                         currency |-> Some(<<"INR">>)]
      [] v = "auth"  -> [amount |-> MathRound(Times100(body.amount)),
                         currency |-> IF body.currency = Undefined
                                      THEN Some(<<"INR">>) ELSE body.currency]
      [] v = "basic" -> [amount |-> Times100(body.amount),
                         currency |-> body.currency]

\* The body of the 200 response
CreateResponse(v, order, body) ==
    CASE v = "api"   -> [id |-> order.id, amount |-> body.amount,
                         currency |-> <<"INR">>, key |-> RAZORPAY_KEY_ID]
      [] v = "auth"  -> [id |-> order.id, amount |-> Some(order.amount),
                         currency |-> order.currency, key |-> RAZORPAY_KEY_ID]
      [] v = "basic" -> [id |-> order.id, amount |-> Some(order.amount),
                         currency |-> order.currency, key |-> Undefined]

\* The request arrives: middleware (variant "auth"), validation, and the call
\* of the gateway
CreateOrder(r, hdr, body) ==
    /\ Free(r)
    /\ LET auth == IF variant = "auth" THEN AuthenticateToken(hdr) ELSE 0 IN
       slots' = [slots EXCEPT ![r] =
         IF auth # 0
         THEN Responding("create", hdr, body, Response(auth, FALSE, Undefined))
         ELSE IF CreateRejects(variant, body)
         THEN Responding("create", hdr, body, Response(400, FALSE, Undefined))
         ELSE [pc |-> "gateway", route |-> "create", hdr |-> hdr, body |-> body,
               user |-> IF variant = "auth" THEN Some(ReqUser(hdr)) ELSE Undefined,
               options |-> CreateOptions(variant, body)]]
    /\ UNCHANGED <<variant, now, gwOrders, known, orders, users>>

\* A faulty handler, which takes the gateway's error for an order and goes on
\* to save a record of it: C9 tells it apart
GatewayCreate_SavesUnconfirmed(r) ==
    /\ slots[r].pc = "gateway"
    /\ \/ /\ GatewayAccepts(slots[r].options)
          /\ Len(gwOrders) < MaxOrders
          /\ LET order == RazorpayOrdersCreate(slots[r].options) IN
             /\ gwOrders' = Append(gwOrders, order)
             /\ slots' = [slots EXCEPT ![r] =
                  [pc |-> "save", route |-> "create", hdr |-> @.hdr,
                   body |-> @.body, user |-> @.user, order |-> order]]
       \/ /\ gwOrders' = gwOrders
          /\ slots' = [slots EXCEPT ![r] =
               [pc |-> "save", route |-> "create", hdr |-> @.hdr,
                body |-> @.body, user |-> @.user,
                order |-> [id |-> <<"order_", "none">>, amount |-> 0,
                           currency |-> <<"INR">>]]]
    /\ UNCHANGED <<variant, now, known, orders, users>>

\* The gateway answers: an order, and the handler goes on to save its record,
\* or an error, caught as a 500
GatewayCreate(r) ==
    /\ slots[r].pc = "gateway"
    /\ \/ /\ GatewayAccepts(slots[r].options)
          /\ Len(gwOrders) < MaxOrders
          /\ LET order == RazorpayOrdersCreate(slots[r].options) IN
             /\ gwOrders' = Append(gwOrders, order)
             /\ slots' = [slots EXCEPT ![r] =
                  [pc |-> "save", route |-> "create", hdr |-> @.hdr,
                   body |-> @.body, user |-> @.user, order |-> order]]
       \/ /\ gwOrders' = gwOrders
          /\ slots' = [slots EXCEPT ![r] =
               Responding("create", @.hdr, @.body, Caught(500, "gateway"))]
    /\ UNCHANGED <<variant, now, known, orders, users>>

\* The store answers the save: the record is in, or an error, caught as a 500
SaveOrder(r) ==
    /\ slots[r].pc = "save"
    /\ slots[r].route = "create"
    /\ LET s == slots[r] IN
       \/ /\ orders' = Append(orders, NewOrderDoc(variant, s.order, s.body, s.user))
          /\ slots' = [slots EXCEPT ![r] =
               Responding("create", s.hdr, s.body,
                          Response(200, TRUE,
                                   Some(CreateResponse(variant, s.order, s.body))))]
       \/ /\ orders' = orders
          /\ slots' = [slots EXCEPT ![r] =
               Responding("create", s.hdr, s.body, Caught(500, "store"))]
    /\ UNCHANGED <<variant, now, gwOrders, known, users>>

----------------------------------------------------------------------------
(* Verify payment *)

\* Is a field the variant requires missing?  Only "auth" checks.
VerifyRejects(v, body) ==
    /\ v = "auth"
    /\ \/ FalsyStr(body.orderId)
       \/ FalsyStr(body.paymentId)
       \/ body.signature = Undefined

\* A faulty comparison, which takes any signature for the right one: C10
\* tells it apart
SignatureMatches_AnySignature(body) == body.signature # Undefined

\* generatedSignature === signature
SignatureMatches(body) ==
    /\ body.signature # Undefined
    /\ Get(body.signature) = GeneratedSignature(body.orderId, body.paymentId)

\* A faulty update, which marks the order Paid without its payment id: C1
\* tells it apart
VerifyUpdate_NoPaymentId(body) ==
    IF SignatureMatches(body)
    THEN [status |-> "Paid", paymentId |-> Undefined,
          signature |-> body.signature]
    ELSE [status |-> "Failed", paymentId |-> Undefined, signature |-> Undefined]

\* The update the handler asks of the store
VerifyUpdate(body) ==
    IF SignatureMatches(body)
    THEN [status |-> "Paid", paymentId |-> body.paymentId,
          signature |-> body.signature]
    ELSE [status |-> "Failed", paymentId |-> Undefined, signature |-> Undefined]

\* The response that follows the update
VerifyResponse(upd) ==
    IF upd.status = "Paid" THEN Response(200, TRUE, Undefined)
    ELSE Response(400, FALSE, Undefined)

\* The request arrives: validation, the signature, and the call of the store.
\* Variant "api" answers a mismatch at once, with a 200.
VerifyPayment(r, body) ==
    /\ Free(r)
    /\ slots' = [slots EXCEPT ![r] =
         IF VerifyRejects(variant, body)
         THEN Responding("verify", Undefined, body, Response(400, FALSE, Undefined))
         ELSE IF variant = "api" /\ ~SignatureMatches(body)
         THEN Responding("verify", Undefined, body, Response(200, FALSE, Undefined))
         ELSE [pc |-> "update", route |-> "verify", hdr |-> Undefined,
               body |-> body, upd |-> VerifyUpdate(body)]]
    /\ UNCHANGED <<variant, now, gwOrders, known, orders, users>>

\* The store answers findOneAndUpdate: done, or an error, caught as a 500
UpdateOrder(r) ==
    /\ slots[r].pc = "update"
    /\ LET s == slots[r] IN
       \/ /\ \E undef \in UndefinedFilter :
                orders' = FindOneAndUpdate(orders, s.body.orderId, s.upd, undef)
          /\ slots' = [slots EXCEPT ![r] =
               Responding("verify", s.hdr, s.body, VerifyResponse(s.upd))]
       \/ /\ orders' = orders
          /\ slots' = [slots EXCEPT ![r] =
               Responding("verify", s.hdr, s.body, Caught(500, "store"))]
    /\ UNCHANGED <<variant, now, gwOrders, known, users>>

----------------------------------------------------------------------------
(* Google sign-in (variant "auth") *)

\* generateToken(user)
GenerateToken(user) ==
    JwtSign([userId |-> user.id, email |-> user.email], JWT_SECRET)

\* User.findOne({googleId: sub}): index of the first such user, 0 for null
FindUserByGoogleId(docs, sub) ==
    IF \E i \in 1..Len(docs) : docs[i].googleId = sub
    THEN CHOOSE i \in 1..Len(docs) :
            /\ docs[i].googleId = sub
            /\ \A j \in 1..(i - 1) : docs[j].googleId # sub
    ELSE 0

\* The unique indexes of userSchema: would inserting doc break one?
DuplicateKey(docs, doc) ==
    \E i \in 1..Len(docs) :
        docs[i].googleId = doc.googleId \/ docs[i].email = doc.email

\* The request arrives and the id token goes to Google
AuthGoogle(r, body) ==
    /\ variant = "auth"
    /\ Free(r)
    /\ slots' = [slots EXCEPT ![r] =
         [pc |-> "verifyIdToken", route |-> "auth", hdr |-> Undefined, body |-> body]]
    /\ UNCHANGED <<variant, now, gwOrders, known, orders, users>>

\* googleClient.verifyIdToken answers: the payload, and the handler looks the
\* user up, or an error (no token, a token Google did not sign for this
\* client, Google unreachable), caught as a 401
VerifyIdToken(r) ==
    /\ slots[r].pc = "verifyIdToken"
    /\ LET s == slots[r] IN
       \/ /\ s.body.token # Undefined
          /\ Get(s.body.token).valid
          /\ slots' = [slots EXCEPT ![r] =
               [pc |-> "findOne", route |-> "auth", hdr |-> s.hdr, body |-> s.body,
                payload |-> Get(s.body.token)]]
       \/ slots' = [slots EXCEPT ![r] =
               Responding("auth", s.hdr, s.body, Caught(401, "verifyIdToken"))]
    /\ UNCHANGED <<variant, now, gwOrders, known, orders, users>>

\* User.findOne answers: the handler makes a new User or stamps lastLogin on
\* the one found, and saves it; an error of the store is caught as a 401
FindOneUser(r) ==
    /\ slots[r].pc = "findOne"
    /\ LET s == slots[r]
           i == FindUserByGoogleId(users, s.payload.sub)
       IN
       \/ slots' = [slots EXCEPT ![r] =
               [pc |-> "save", route |-> "auth", hdr |-> s.hdr, body |-> s.body,
                payload |-> s.payload, found |-> i, lastLogin |-> now]]
       \/ slots' = [slots EXCEPT ![r] =
               Responding("auth", s.hdr, s.body, Caught(401, "store"))]
    /\ UNCHANGED <<variant, now, gwOrders, known, orders, users>>

\* user.save() answers.  A new user is inserted, unless a unique index
\* refuses it; a user that was found has its lastLogin updated.  The handler
\* then answers with a session token; an error is caught as a 401.
SaveUser(r) ==
    /\ slots[r].pc = "save"
    /\ slots[r].route = "auth"
    /\ LET s == slots[r]
           doc == [id |-> Len(users) + 1, googleId |-> s.payload.sub,
                   email |-> s.payload.email, lastLogin |-> s.lastLogin]
           ok(user) == Responding("auth", s.hdr, s.body,
                           Response(200, TRUE,
                                    Some([token |-> GenerateToken(user),
                                          id |-> user.id, email |-> user.email])))
           failed(err) == Responding("auth", s.hdr, s.body, Caught(401, err))
       IN
       \/ /\ s.found = 0
          /\ ~DuplicateKey(users, doc)
          /\ users' = Append(users, doc)
          /\ slots' = [slots EXCEPT ![r] = ok(doc)]
       \/ /\ s.found = 0
          /\ DuplicateKey(users, doc)
          /\ users' = users
          /\ slots' = [slots EXCEPT ![r] = failed("duplicate key")]
       \/ /\ s.found # 0
          /\ users' = [users EXCEPT ![s.found].lastLogin = s.lastLogin]
          /\ slots' = [slots EXCEPT ![r] = ok(users'[s.found])]
       \/ /\ users' = users
          /\ slots' = [slots EXCEPT ![r] = failed("store")]
    /\ UNCHANGED <<variant, now, gwOrders, known, orders>>

----------------------------------------------------------------------------
(* Protected reads (variant "auth") *)

\* Order.find({userId}): the ids of the user's orders
OrdersOf(docs, userId) ==
    {docs[i].orderId : i \in {j \in 1..Len(docs) : docs[j].userId = Some(userId)}}

\* User.findById(id): index of the user, 0 for null
FindById(docs, id) ==
    IF \E i \in 1..Len(docs) : docs[i].id = id
    THEN CHOOSE i \in 1..Len(docs) : docs[i].id = id
    ELSE 0

\* GET /api/user/orders and GET /api/auth/check arrive: the middleware, then
\* the read of the store
ProtectedGet(r, route, hdr) ==
    /\ variant = "auth"
    /\ Free(r)
    /\ LET auth == AuthenticateToken(hdr) IN
       slots' = [slots EXCEPT ![r] =
         IF auth # 0
         THEN Responding(route, hdr, Undefined, Response(auth, FALSE, Undefined))
         ELSE [pc |-> "read", route |-> route, hdr |-> hdr, body |-> Undefined,
               user |-> Some(ReqUser(hdr))]]
    /\ UNCHANGED <<variant, now, gwOrders, known, orders, users>>

\* The store answers the read; an error is caught as a 500
ReadStore(r) ==
    /\ slots[r].pc = "read"
    /\ LET s == slots[r]
           userId == Get(s.user).userId
           i == FindById(users, userId)
       IN
       slots' = [slots EXCEPT ![r] = Responding(s.route, s.hdr, s.body,
         IF s.route = "orders"
         THEN Response(200, TRUE, Some(OrdersOf(orders, userId)))
         ELSE IF i = 0 THEN Response(404, FALSE, Undefined)
         ELSE Response(200, TRUE, Some([id |-> users[i].id, email |-> users[i].email])))]
    /\ UNCHANGED <<variant, now, gwOrders, known, orders, users>>

ReadFails(r) ==
    /\ slots[r].pc = "read"
    /\ slots' = [slots EXCEPT ![r] =
         Responding(@.route, @.hdr, @.body, Caught(500, "store"))]
    /\ UNCHANGED <<variant, now, gwOrders, known, orders, users>>

----------------------------------------------------------------------------
(* What clients send *)

Present == {Some("present")}

\* Rs 499.99, and Rs 1.234, which is no whole number of paise
AmountInputs == {Undefined, Some(499990), Some(1234)}

CreateBodies ==
    [amount : AmountInputs, currency : {Undefined, Some(<<"INR">>)},
     products : Present \cup {Undefined}, customer : Present \cup {Undefined}]

\* Bodies with every field the handlers read
FullCreateBodies ==
    [amount : {Some(499990)}, currency : {Undefined, Some(<<"USD">>)},
     products : Present, customer : Present]

\* The body the shop's checkout page sends
CheckoutBodies ==
    [amount : {Some(499990)}, currency : {Some(<<"INR">>)},
     products : Present, customer : Present]

UserIds == 1..MaxUsers

EmailOf(u) == <<"user_", Digit[u], "@mail">>

\* Tokens a client may hold: signed by the server at some time, so that they
\* expire at day 1 or after the run, or signed with another secret
ClientTokens ==
    {[userId |-> u, email |-> EmailOf(u), secret |-> s, exp |-> e] :
        u \in UserIds, s \in {JWT_SECRET, "other_secret"}, e \in {1, TokenTTL}}

AuthHeaders ==
    {Undefined, Some(<<"Bearer">>)} \cup {Some(<<"Bearer", t>>) : t \in ClientTokens}

\* The header of a client whose session outlasts the run
SessionHeaders ==
    {Some(<<"Bearer", [userId |-> u, email |-> EmailOf(u),
                       secret |-> JWT_SECRET, exp |-> TokenTTL]>>) : u \in {1}}

\* Signatures a client can supply: one the gateway made, for a payment of an
\* order the client was told of, or one made without the gateway's secret, or
\* none
SignatureInputs ==
    {Undefined}
    \cup {Some(Hmac(RAZORPAY_KEY_SECRET, SignedMessage(Some(o), Some(p)))) :
            o \in known, p \in PaymentIds}
    \cup {Some(Hmac("other_secret",
                    SignedMessage(Some(GatewayOrderId(1)), Some(<<"pay_", Digit[1]>>))))}

\* The order ids the gateway gives, whether it has given them yet or not
OrderIdInputs ==
    {Undefined} \cup {Some(GatewayOrderId(n)) : n \in 1..MaxOrders}

VerifyBodies ==
    [orderId : OrderIdInputs,
     paymentId : {Undefined} \cup {Some(p) : p \in PaymentIds},
     signature : SignatureInputs]

----------------------------------------------------------------------------
(* Spec: the order endpoints of each variant; orders are created by the     *)
(* checkout page and verified by arbitrary requests                        *)

Init ==
    /\ variant \in Variants
    /\ now = 0
    /\ gwOrders = <<>>
    /\ known = {}
    /\ orders = <<>>
    /\ users = <<>>
    /\ slots = [r \in Slots |-> Idle]

Next ==
    \/ \E r \in DOMAIN slots, hdr \in SessionHeaders, body \in CheckoutBodies :
          CreateOrder(r, hdr, body)
    \/ \E r \in DOMAIN slots : GatewayCreate(r)
    \/ \E r \in DOMAIN slots : SaveOrder(r)
    \/ \E r \in DOMAIN slots, body \in VerifyBodies : VerifyPayment(r, body)
    \/ \E r \in DOMAIN slots : UpdateOrder(r)
    \/ \E r \in DOMAIN slots : Respond(r)

Spec == Init /\ [][Next]_vars

----------------------------------------------------------------------------
(* SpecCreate: the create-order endpoint of each variant under arbitrary   *)
(* requests                                                                *)

NextCreate ==
    \/ \E r \in DOMAIN slots, hdr \in SessionHeaders \cup {Undefined}, body \in CreateBodies :
          CreateOrder(r, hdr, body)
    \/ \E r \in DOMAIN slots : GatewayCreate(r)
    \/ \E r \in DOMAIN slots : SaveOrder(r)
    \/ \E r \in DOMAIN slots : Respond(r)

SpecCreate == Init /\ [][NextCreate]_vars

----------------------------------------------------------------------------
(* SpecSession: the protected routes of variant "auth", as time passes.    *)
(* The User collection is as earlier sign-ins left it.                     *)

InitSession ==
    /\ variant = "auth"
    /\ now = 0
    /\ gwOrders = <<>>
    /\ known = {}
    /\ orders = <<>>
    /\ users \in {<<>>, <<[id |-> 1, googleId |-> <<"sub_", Digit[1]>>,
                          email |-> EmailOf(1), lastLogin |-> 0]>>}
    /\ slots = [r \in Slots |-> Idle]

NextSession ==
    \/ \E r \in DOMAIN slots, route \in {"orders", "check"}, hdr \in AuthHeaders :
          ProtectedGet(r, route, hdr)
    \/ \E r \in DOMAIN slots : ReadStore(r)
    \/ \E r \in DOMAIN slots : ReadFails(r)
    \/ \E r \in DOMAIN slots, hdr \in AuthHeaders, body \in FullCreateBodies :
          CreateOrder(r, hdr, body)
    \/ \E r \in DOMAIN slots : GatewayCreate(r)
    \/ \E r \in DOMAIN slots : SaveOrder(r)
    \/ \E r \in DOMAIN slots : Respond(r)
    \/ Tick

SpecSession == InitSession /\ [][NextSession]_vars

----------------------------------------------------------------------------
(* SpecSignIn: sign-ins of variant "auth" that overlap                     *)

Subs == {<<"sub_", Digit[u]>> : u \in UserIds}

\* Id tokens: Google's, for this client, or not
IdTokens ==
    {Undefined}
    \cup {Some([sub |-> sub, email |-> EmailOf(u), valid |-> v]) :
            sub \in Subs, u \in UserIds, v \in BOOLEAN}

InitSignIn ==
    /\ variant = "auth"
    /\ now = 0
    /\ gwOrders = <<>>
    /\ known = {}
    /\ orders = <<>>
    /\ users = <<>>
    /\ slots = [r \in SignInSlots |-> Idle]

NextSignIn ==
    \/ \E r \in DOMAIN slots, t \in IdTokens : AuthGoogle(r, [token |-> t])
    \/ \E r \in DOMAIN slots : VerifyIdToken(r)
    \/ \E r \in DOMAIN slots : FindOneUser(r)
    \/ \E r \in DOMAIN slots : SaveUser(r)
    \/ \E r \in DOMAIN slots : Respond(r)
    \/ Tick

SpecSignIn == InitSignIn /\ [][NextSignIn]_vars

----------------------------------------------------------------------------
(* Claims about payment verification (Spec) *)

\* The signature of the request is the keyed hash of its own
\* orderId + "|" + paymentId
ValidSignature(body) ==
    /\ body.signature # Undefined
    /\ Get(body.signature) =
         Hmac(RAZORPAY_KEY_SECRET,
              ToStr(body.orderId) \o <<"|">> \o ToStr(body.paymentId))

MissingInput(body) ==
    body.orderId = Undefined \/ body.paymentId = Undefined \/ body.signature = Undefined

\* Indexes of the records with gateway order id `id`
RecordsOf(docs, id) == {i \in 1..Len(docs) : Some(docs[i].orderId) = id}

VerifyAnswered(s) == s.pc = "respond" /\ s.route = "verify"

C2_MismatchFails400 ==
    \A r \in DOMAIN slots :
        LET s == slots[r] IN
        (VerifyAnswered(s) /\ ~MissingInput(s.body) /\ ~ValidSignature(s.body))
        => /\ s.pending.status = 400
           /\ ~s.pending.success
           /\ \A i \in RecordsOf(orders, s.body.orderId) :
                 orders[i].status = "Failed"

\* C3, as stated: no step changes the status of a record that is Paid or
\* Failed.
C3_PaidFailedTerminal ==
    [][\A i \in 1..Len(orders) :
          orders[i].status \in {"Paid", "Failed"}
          => orders'[i].status = orders[i].status]_vars

\* C6, as stated: a verification request without one of its three inputs is
\* answered 400, and no step of its handler changes a record.
C6_MissingInputRejected ==
    [][\A r \in DOMAIN slots :
          (slots'[r] # slots[r] /\ slots'[r] # Idle
              /\ slots'[r].route = "verify" /\ MissingInput(slots'[r].body))
          => /\ orders' = orders
             /\ slots'[r].pc = "respond" => slots'[r].pending.status = 400]_vars

\* C10: a record becomes Paid, or a Paid record gets another payment id,
\* only in the update step of a verification request for the record's order
\* id whose signature is the keyed hash of its orderId + "|" + paymentId,
\* and the payment id the record gets is that request's.
C10_PaidOnlyByVerification ==
    [][\A i \in 1..Len(orders') :
          (/\ orders'[i].status = "Paid"
           /\ \/ i > Len(orders)
              \/ orders[i].status # "Paid"
              \/ orders[i].paymentId # orders'[i].paymentId)
          => \E r \in DOMAIN slots :
                /\ slots[r].pc = "update"
                /\ slots'[r].pc = "respond"
                /\ ValidSignature(slots[r].body)
                /\ slots[r].body.orderId = Some(orders'[i].orderId)
                /\ slots[r].body.paymentId = orders'[i].paymentId]_vars

\* C10, witness: a Paid record
C10_Witness ==
    \E i \in 1..Len(orders) :
        orders[i].status = "Paid" /\ orders[i].paymentId # Undefined

----------------------------------------------------------------------------
(* Claims about order creation (SpecCreate) *)

LacksField(body) ==
    body.amount = Undefined \/ body.products = Undefined \/ body.customer = Undefined

GatewayIds == {gwOrders[j].id : j \in 1..Len(gwOrders)}

\* C4, as stated, of the requests that pass the session middleware (C7 is
\* about the others): a create-order request that lacks a required field is
\* answered 400, its handler never calls the gateway nor saves a record.
C4_LackingFieldRejected ==
    \A r \in DOMAIN slots :
        LET s == slots[r] IN
        (s # Idle /\ s.route = "create" /\ LacksField(s.body)
            /\ (variant = "auth" => s.hdr \in SessionHeaders))
        => s.pc = "respond" /\ s.pending.status = 400

\* C5, as stated: a create-order request answered 200 is answered the amount
\* the gateway holds for the order it names, and has added one record, with
\* status "Created" and that order's id.
C5_AmountIsGatewayAmount ==
    \A r \in DOMAIN slots :
        LET s == slots[r] IN
        (s.pc = "respond" /\ s.route = "create" /\ s.pending.status = 200)
        => LET data == Get(s.pending.data) IN
           /\ \E j \in 1..Len(gwOrders) :
                 /\ gwOrders[j].id = data.id
                 /\ data.amount = Some(gwOrders[j].amount)
           /\ Cardinality(RecordsOf(orders, Some(data.id))) = 1
           /\ \A i \in RecordsOf(orders, Some(data.id)) : orders[i].status = "Created"

\* C9: every record is of an order the gateway created, a handler saves only
\* once the gateway has created its order and answers 200 only once the
\* record of that order is in the store; and when the gateway call fails
\* the handler goes on to answer 500, and neither that step nor the answer
\* writes a record.
C9_GatewayThenSaveThenAnswer ==
    /\ [](/\ \A i \in 1..Len(orders) :
                /\ orders[i].orderId \in GatewayIds
                /\ RecordsOf(orders, Some(orders[i].orderId)) = {i}
          /\ \A r \in DOMAIN slots :
                LET s == slots[r] IN
                /\ (s.pc = "save" /\ s.route = "create")
                      => /\ s.order.id \in GatewayIds
                         /\ RecordsOf(orders, Some(s.order.id)) = {}
                /\ (s.pc = "respond" /\ s.route = "create" /\ s.pending.status = 200)
                      => RecordsOf(orders, Some(Get(s.pending.data).id)) # {})
    /\ [][\A r \in DOMAIN slots :
             /\ (slots[r].pc = "gateway" /\ slots'[r].pc = "respond")
                   => /\ slots'[r].pending.status = 500
                      /\ gwOrders' = gwOrders
                      /\ orders' = orders
             /\ (slots[r].pc = "gateway" /\ slots'[r].pc # "gateway")
                   => orders' = orders
             /\ (slots[r].pc = "respond" /\ slots'[r] = Idle)
                   => orders' = orders]_vars

\* C9, witness: a handler whose gateway call failed, about to answer 500,
\* after a handler that saved its record and answered 200
C9_Witness ==
    \E r \in DOMAIN slots :
        /\ slots[r].pc = "respond" /\ slots[r].route = "create"
        /\ slots[r].pending.err = "gateway" /\ slots[r].pending.status = 500
        /\ Len(orders) = 1
        /\ known = {orders[1].orderId}

----------------------------------------------------------------------------
(* Claims about sessions (SpecSession) and sign-in (SpecSignIn) *)

Protected == {"create", "orders", "check"}

HasToken(hdr) == hdr # Undefined /\ Len(Get(hdr)) >= 2

\* C7: a request to a protected route without a token is answered 401; one
\* whose token is not signed with the server's secret, or has expired, 403;
\* any other one goes on to the handler with the token's identity attached.
\* A handler of a protected route that is calling the gateway, saving or
\* reading holds a token signed with the server's secret, and its identity.
C7_SessionMiddleware ==
    /\ [][\A r \in DOMAIN slots :
             (slots[r] = Idle /\ slots'[r] # Idle /\ slots'[r].route \in Protected)
             => LET s == slots'[r] IN
                IF ~HasToken(s.hdr)
                THEN s.pc = "respond" /\ s.pending.status = 401
                ELSE LET token == Get(s.hdr)[2] IN
                     IF token.secret # JWT_SECRET \/ token.exp <= now
                     THEN s.pc = "respond" /\ s.pending.status = 403
                     ELSE /\ s.pc \in {"gateway", "read"}
                          /\ s.user = Some([userId |-> token.userId,
                                            email |-> token.email])]_vars
    /\ [](\A r \in DOMAIN slots :
             LET s == slots[r] IN
             (s # Idle /\ s.route \in Protected /\ s.pc \in {"gateway", "save", "read"})
             => /\ HasToken(s.hdr)
                /\ Get(s.hdr)[2].secret = JWT_SECRET
                /\ s.user = Some([userId |-> Get(s.hdr)[2].userId,
                                  email |-> Get(s.hdr)[2].email]))

\* C7, witness: a request with a token of the server's that has expired,
\* answered 403, after an order was saved for a request with a token
C7_Witness ==
    \E r \in DOMAIN slots :
        /\ slots[r].pc = "respond" /\ slots[r].route \in Protected
        /\ HasToken(slots[r].hdr)
        /\ Get(slots[r].hdr)[2].secret = JWT_SECRET
        /\ Get(slots[r].hdr)[2].exp <= now
        /\ slots[r].pending.status = 403
        /\ Len(orders) = 1

\* C8, as stated: there is one User record per subject id at most, and a
\* sign-in with an id token of Google's, for a subject whose email no other
\* subject's record holds, is answered 200 unless Google or the store failed.
C8_SignInSucceeds ==
    /\ \A i, j \in 1..Len(users) : users[i].googleId = users[j].googleId => i = j
    /\ \A r \in DOMAIN slots :
          LET s == slots[r] IN
          (/\ s.pc = "respond" /\ s.route = "auth"
           /\ s.body.token # Undefined
           /\ Get(s.body.token).valid
           /\ s.pending.err \notin {"verifyIdToken", "store"}
           /\ \A i \in 1..Len(users) :
                 users[i].email = Get(s.body.token).email
                 => users[i].googleId = Get(s.body.token).sub)
          => s.pending.status = 200 /\ s.pending.success

====
